---------------------------- MODULE Spec2Model ----------------------------
(***************************************************************************)
(* Model of the PaperMatch browser client, frontend/scripts/script.js.     *)
(*                                                                         *)
(* The script owns one output surface, the results region myDiv, and one   *)
(* asynchronous operation, search(text, filter): it shows the loader,      *)
(* POSTs the query and hangs a promise chain (then, then, catch) on the    *)
(* fetch.  The model follows each request through that chain.  A promise   *)
(* reaction is a microtask: once one is queued it runs before any further  *)
(* DOM or network event, which is what NoMicrotask expresses.              *)
(*                                                                         *)
(* Strings are sequences of atoms (short TLA+ strings): String.trim, the   *)
(* query-string parser and string concatenation work on these sequences.   *)
(* A nullable value is a sequence of length 0 (null) or 1 (the value).     *)
(***************************************************************************)
EXTENDS Naturals, Sequences, FiniteSets, TLC

(***************************************************************************)
(* Bounds of the model.                                                    *)
(***************************************************************************)
\* Requests issued during one page load.
MaxReq == 2
\* Elements of a response array.
MaxRecords == 2

(***************************************************************************)
(* Strings.                                                                *)
(***************************************************************************)
Whitespace == {" ", "\n", "\t"}

RECURSIVE TrimStart(_)
TrimStart(s) ==
    IF s # <<>> /\ Head(s) \in Whitespace THEN TrimStart(Tail(s)) ELSE s

RECURSIVE TrimEnd(_)
TrimEnd(s) ==
    IF s # <<>> /\ s[Len(s)] \in Whitespace
    THEN TrimEnd(SubSeq(s, 1, Len(s) - 1))
    ELSE s

\* String.prototype.trim
Trim(s) == TrimEnd(TrimStart(s))

\* String(n), as a template literal interpolates a number
NumStr(n) == ToString(n)

(***************************************************************************)
(* new URLSearchParams(window.location.search) and its get(name).          *)
(***************************************************************************)
\* DecodeAtom without percent-decoding: escapes reach the backend as typed.
DecodeAtom_PlusOnly(c) == IF c = "+" THEN " " ELSE c

\* One application/x-www-form-urlencoded unit decoded: "+" is a space, a
\* percent escape is the character it names.
DecodeAtom(c) ==
    CASE c = "+"   -> " "
      [] c = "%20" -> " "
      [] c = "%3D" -> "="
      [] c = "%26" -> "&"
      [] c = "%2B" -> "+"
      [] OTHER     -> c

FormDecode(s) == [i \in 1..Len(s) |-> DecodeAtom(s[i])]

\* Index of the first occurrence of c in s, 0 when there is none.
RECURSIVE IndexFrom(_, _, _)
IndexFrom(s, c, i) ==
    IF i > Len(s) THEN 0
    ELSE IF s[i] = c THEN i
    ELSE IndexFrom(s, c, i + 1)

IndexOf(s, c) == IndexFrom(s, c, 1)

\* s split on every occurrence of sep.
RECURSIVE Split(_, _)
Split(s, sep) ==
    LET k == IndexOf(s, sep)
    IN  IF k = 0 THEN <<s>>
        ELSE <<SubSeq(s, 1, k - 1)>> \o Split(SubSeq(s, k + 1, Len(s)), sep)

\* One name=value piece: split on the first "=", both halves decoded.
ParsePair(p) ==
    LET k == IndexOf(p, "=")
    IN  IF k = 0
        THEN [name |-> FormDecode(p), value |-> <<>>]
        ELSE [name  |-> FormDecode(SubSeq(p, 1, k - 1)),
              value |-> FormDecode(SubSeq(p, k + 1, Len(p)))]

\* The list of pairs of a query string: a leading "?" is dropped, empty
\* pieces are skipped.
URLSearchParams(query) ==
    LET body   == IF query # <<>> /\ Head(query) = "?" THEN Tail(query) ELSE query
        pieces == Split(body, "&")
        kept   == SelectSeq(pieces, LAMBDA p : p # <<>>)
    IN  [i \in 1..Len(kept) |-> ParsePair(kept[i])]

\* urlParams.get(name): the first value under that name, or null.
ParamsGet(params, name) ==
    LET hits == SelectSeq(params, LAMBDA p : p.name = name)
    IN  IF hits = <<>> THEN <<>> ELSE <<hits[1].value>>

(***************************************************************************)
(* JSON.stringify({text: text, filter: filter}), the body of the POST.     *)
(***************************************************************************)
\* One character of a JSON string literal: quote, backslash and control
\* characters are written as escapes.
JsonEscape(c) ==
    CASE c = "\"" -> "\\\""
      [] c = "\\" -> "\\\\"
      [] c = "\n" -> "\\n"
      [] c = "\t" -> "\\t"
      [] OTHER    -> c

\* A string as a JSON string literal, between double quotes.
JsonString(s) == <<"\"">> \o [i \in 1..Len(s) |-> JsonEscape(s[i])] \o <<"\"">>

JSONStringify(text, filter) ==
    <<"{", "\"text\"", ":">> \o JsonString(text)
        \o <<",", "\"filter\"", ":">> \o JsonString(filter) \o <<"}">>

(***************************************************************************)
(* Page constants.                                                         *)
(***************************************************************************)
search_url == <<"http://0.0.0.0:8000/search">>

\* new Date().getFullYear() on the day the page is loaded
currentYear == 2026

\* The option values the script writes into the year_filter dropdown.
yearDropdown ==
    << <<>>,
       <<"year", " ", "=", "=", " ", NumStr(currentYear)>>,
       <<"year", " ", ">", "=", " ", NumStr(currentYear - 5)>>,
       <<"year", " ", ">", "=", " ", NumStr(currentYear - 10)>> >>

(***************************************************************************)
(* The results region.                                                     *)
(***************************************************************************)
\* The markup of the page before the script writes to the region.
InitialRegion == [kind |-> "initial", items |-> <<>>, text |-> <<>>]

\* myDiv.innerHTML = `<p></p><div id="loader"></div>`
Loader == [kind |-> "loader", items |-> <<>>, text |-> <<>>]

\* myDiv.innerHTML = fragments.join("")
HtmlRegion(fragments) == [kind |-> "html", items |-> fragments, text |-> <<>>]

\* myDiv.textContent = text
TextRegion(text) == [kind |-> "text", items |-> <<>>, text |-> text]

(***************************************************************************)
(* Inputs: what the user and the address bar can hold.                     *)
(***************************************************************************)
\* Values of the search textarea at the time of a submit.
TextInputs ==
    { <<>>, <<" ">>, <<"2401.07215">>, <<" ", "2401.07215", "\n">>,
      <<"graph", "/", "?", "#", "&", "\"", " ", "neural">> }

\* Page addresses: the query string, and the parameters a reader of the
\* address takes it to carry (null when the parameter is not there).
DeepLinks ==
    { [search |-> <<>>, arxiv_id |-> <<>>, filter |-> <<>>],
      [search   |-> <<"?", "arxiv_id", "=", "2401.07215">>,
       arxiv_id |-> << <<"2401.07215">> >>, filter |-> <<>>],
      [search   |-> <<"?", "arxiv_id", "=">>,
       arxiv_id |-> << <<>> >>, filter |-> <<>>],
      [search   |-> <<"?", "arxiv_id", "=", "+", "2401.07215">>,
       arxiv_id |-> << <<" ", "2401.07215">> >>, filter |-> <<>>],
      [search   |-> <<"?", "arxiv_id", "=", "2401.07215", "&",
                      "filter", "=", "year", "%3D", "%3D", "2025">>,
       arxiv_id |-> << <<"2401.07215">> >>,
       filter   |-> << <<"year", "=", "=", "2025">> >>],
      [search   |-> <<"?", "arxiv_id", "=", "2401.07215", "&",
                      "filter", "=", "year", "=", "=", "2025">>,
       arxiv_id |-> << <<"2401.07215">> >>,
       filter   |-> << <<"year", "=", "=", "2025">> >>],
      [search   |-> <<"?", "filter", "=", "year", "%3D", "%3D", "2025">>,
       arxiv_id |-> <<>>,
       filter   |-> << <<"year", "=", "=", "2025">> >>] }

VARIABLES
    location_search,  \* window.location.search of this page load
    loaded,           \* the script has run to its last line
    myDiv,            \* the results region
    reqs,             \* the fetches issued, in order, each with its chain
    writer            \* index of the request whose code last wrote myDiv

vars == <<location_search, loaded, myDiv, reqs, writer>>

(***************************************************************************)
(* What the backend can answer.                                            *)
(***************************************************************************)
Statuses == {200, 404, 500}

\* response.ok
Ok(status) == status >= 200 /\ status <= 299

\* ResultRecords the backend can return.
Papers ==
    { [id |-> <<"2401.07215">>, title |-> "T", authors |-> "A", month |-> "Jan",
       year |-> "2024", abstract |-> "X", categories |-> "cs.AI",
       url |-> "http://u"],
      [id |-> <<"hep-th", "/", "9901001">>, title |-> "S", authors |-> "B",
       month |-> "Feb", year |-> "1999", abstract |-> "Y $x^2$",
       categories |-> "hep-th", url |-> "http://v"] }

\* Elements of a response array: {entity: record}, or an element without one.
Elements == {[entity |-> <<p>>] : p \in Papers} \cup {[entity |-> <<>>]}

NoBody == [kind |-> "none", isArray |-> FALSE, elems |-> <<>>]

\* A body that is not JSON.
Malformed == [kind |-> "malformed", isArray |-> FALSE, elems |-> <<>>]

\* Decoded bodies: a JSON value that is no array (an object, null), or an
\* array of at most MaxRecords elements.
JsonValues ==
    {[kind |-> "json", isArray |-> FALSE, elems |-> <<>>]}
    \cup {[kind |-> "json", isArray |-> TRUE, elems |-> e] :
            e \in UNION {[1..k -> Elements] : k \in 0..MaxRecords}}

Bodies == {Malformed} \cup JsonValues

\* Error objects, and `${error}`: name, ": ", message.
HttpError(status) == [name |-> "Error", message |-> <<"HTTP error: ", NumStr(status)>>]
NetworkError == [name |-> "TypeError", message |-> <<"Failed to fetch">>]
JsonError == [name |-> "SyntaxError", message |-> <<"Unexpected token">>]
NotArrayError == [name |-> "TypeError", message |-> <<"json.map is not a function">>]
NoEntityError ==
    [name |-> "TypeError",
     message |-> <<"Cannot read properties of undefined (reading 'url')">>]
MathError == [name |-> "ReferenceError", message |-> <<"renderMathInElement failed">>]

ErrorString(e) == <<e.name, ": ">> \o e.message

\* The template with a link that names its parameter id, not arxiv_id.
Fragment_LinkNamesId(result) ==
    LET e == result.entity[1]
    IN  [href       |-> e.url,
         title      |-> e.title,
         authors    |-> e.authors,
         date       |-> <<e.month, " ", e.year>>,
         abstract   |-> <<e.abstract, "...">>,
         categories |-> e.categories,
         similar    |-> <<"?", "id", "=">> \o e.id]

\* One result rendered by the template of json.map.
Fragment(result) ==
    LET e == result.entity[1]
    IN  [href       |-> e.url,
         title      |-> e.title,
         authors    |-> e.authors,
         date       |-> <<e.month, " ", e.year>>,
         abstract   |-> <<e.abstract, "...">>,
         categories |-> e.categories,
         similar    |-> <<"?", "arxiv_id", "=">> \o e.id]

\* json.map with its arguments swapped into reverse order.
RenderFragments_Reversed(json) ==
    [k \in DOMAIN json.elems |->
        Fragment(json.elems[Len(json.elems) + 1 - k])]

\* json.map(result => `...`): one fragment per element, in order.
RenderFragments(json) ==
    [k \in DOMAIN json.elems |-> Fragment(json.elems[k])]

(***************************************************************************)
(* search(text, filter): loader first, then the fetch with its chain.      *)
(***************************************************************************)
\* A request on whose loader the math pass has already been run.
NewRequest_MathOnLoader(text, filter, origin) ==
    [method |-> "POST",
     url    |-> search_url,
     text   |-> text,
     filter |-> filter,
     origin |-> origin,
     pc     |-> "fetch",
     status |-> 0,
     body   |-> NoBody,
     math   |-> "returned",
     error  |-> <<>>]

NewRequest(text, filter, origin) ==
    [method |-> "POST",
     url    |-> search_url,
     text   |-> text,
     filter |-> filter,
     origin |-> origin,
     pc     |-> "fetch",
     status |-> 0,
     body   |-> NoBody,
     math   |-> "none",
     error  |-> <<>>]

\* body: JSON.stringify({text: text, filter: filter}) of the fetch of r.
RequestBody(r) == JSONStringify(r.text, r.filter)

\* search refusing to start once the region shows an error message.
search_NotAfterFailure(text, filter, origin) ==
    /\ Len(reqs) < MaxReq
    /\ myDiv.kind # "text"
    /\ myDiv' = Loader
    /\ reqs' = Append(reqs, NewRequest(text, filter, origin))
    /\ writer' = Len(reqs) + 1

\* search dispatching the request without touching the region.
search_NoLoader(text, filter, origin) ==
    /\ Len(reqs) < MaxReq
    /\ reqs' = Append(reqs, NewRequest(text, filter, origin))
    /\ UNCHANGED <<myDiv, writer>>

search(text, filter, origin) ==
    /\ Len(reqs) < MaxReq
    /\ myDiv' = Loader
    /\ reqs' = Append(reqs, NewRequest(text, filter, origin))
    /\ writer' = Len(reqs) + 1

\* A promise reaction is queued: it runs before the next event.
NoMicrotask == \A i \in DOMAIN reqs : reqs[i].pc \notin {"then1", "then2", "catch"}

(***************************************************************************)
(* search_by_id(), run once as the last statement of the script.           *)
(***************************************************************************)
\* search_by_id without its else branch: a link without a filter is ignored.
search_by_id_NeedsFilter ==
    LET urlParams == URLSearchParams(location_search)
        arxiv_id  == ParamsGet(urlParams, <<"arxiv_id">>)
        filter    == ParamsGet(urlParams, <<"filter">>)
    IN  IF arxiv_id # <<>> /\ filter # <<>>
        THEN search(arxiv_id[1], filter[1], "load")
        ELSE UNCHANGED <<myDiv, reqs, writer>>

search_by_id ==
    LET urlParams == URLSearchParams(location_search)
        arxiv_id  == ParamsGet(urlParams, <<"arxiv_id">>)
        filter    == ParamsGet(urlParams, <<"filter">>)
    IN  IF arxiv_id # <<>>
        THEN IF filter # <<>>
             THEN search(arxiv_id[1], filter[1], "load")
             ELSE search(arxiv_id[1], <<>>, "load")
        ELSE UNCHANGED <<myDiv, reqs, writer>>

PageLoad ==
    /\ ~loaded
    /\ search_by_id
    /\ loaded' = TRUE
    /\ UNCHANGED location_search

Init ==
    /\ location_search \in {d.search : d \in DeepLinks}
    /\ loaded = FALSE
    /\ myDiv = InitialRegion
    /\ reqs = <<>>
    /\ writer = 0

(***************************************************************************)
(* perform_search(event), the click listener of the search button.         *)
(***************************************************************************)
\* perform_search sending every query unfiltered.
perform_search_NoFilter(value, selectedIndex) ==
    LET input_text == Trim(value)
    IN  IF input_text # <<>>
        THEN search(input_text, <<>>, "click")
        ELSE UNCHANGED <<myDiv, reqs, writer>>

perform_search(value, selectedIndex) ==
    LET input_text   == Trim(value)
        input_filter == yearDropdown[selectedIndex]
    IN  IF input_text # <<>>
        THEN search(input_text, input_filter, "click")
        ELSE UNCHANGED <<myDiv, reqs, writer>>

\* The user clicks the search button.
Click(value, selectedIndex) ==
    /\ loaded
    /\ NoMicrotask
    /\ perform_search(value, selectedIndex)
    /\ UNCHANGED <<location_search, loaded>>

\* The keydown listener without its test of event.shiftKey.
Keydown_IgnoresShift(key, shiftKey) ==
    /\ loaded
    /\ NoMicrotask
    /\ IF key = "Enter"
       THEN \E value \in TextInputs, sel \in DOMAIN yearDropdown :
                perform_search(value, sel)
       ELSE UNCHANGED <<myDiv, reqs, writer>>
    /\ UNCHANGED <<location_search, loaded>>

\* A key goes down in the textarea: Enter without shift clicks the button,
\* whose listener reads the textarea and the dropdown.
Keydown(key, shiftKey) ==
    /\ loaded
    /\ NoMicrotask
    /\ IF key = "Enter" /\ ~shiftKey
       THEN \E value \in TextInputs, sel \in DOMAIN yearDropdown :
                perform_search(value, sel)
       ELSE UNCHANGED <<myDiv, reqs, writer>>
    /\ UNCHANGED <<location_search, loaded>>

(***************************************************************************)
(* The promise chain of one fetch.                                         *)
(***************************************************************************)
\* The network settles the fetch: a response with some status, or a
\* rejection, which falls through both then handlers to the catch.
FetchSettle(i) ==
    /\ NoMicrotask
    /\ reqs[i].pc = "fetch"
    /\ \/ \E status \in Statuses :
            reqs' = [reqs EXCEPT ![i].pc = "then1", ![i].status = status]
       \/ reqs' = [reqs EXCEPT ![i].pc = "catch", ![i].error = <<NetworkError>>]
    /\ UNCHANGED <<location_search, loaded, myDiv, writer>>

\* The first handler without its status check: every response is decoded.
Then1_NoStatusCheck(i) ==
    /\ reqs[i].pc = "then1"
    /\ reqs' = [reqs EXCEPT ![i].pc = "json"]
    /\ UNCHANGED <<location_search, loaded, myDiv, writer>>

\* .then((response) => ...): throw on a bad status, else start response.json()
Then1(i) ==
    /\ reqs[i].pc = "then1"
    /\ IF ~Ok(reqs[i].status)
       THEN reqs' = [reqs EXCEPT ![i].pc = "catch",
                                 ![i].error = <<HttpError(reqs[i].status)>>]
       ELSE reqs' = [reqs EXCEPT ![i].pc = "json"]
    /\ UNCHANGED <<location_search, loaded, myDiv, writer>>

\* response.json() settles: the body read and decoded, or a rejection.
JsonSettle(i) ==
    /\ NoMicrotask
    /\ reqs[i].pc = "json"
    /\ \E body \in Bodies :
         IF body.kind = "malformed"
         THEN reqs' = [reqs EXCEPT ![i].pc = "catch",
                                   ![i].error = <<JsonError>>]
         ELSE reqs' = [reqs EXCEPT ![i].pc = "then2", ![i].body = body]
    /\ UNCHANGED <<location_search, loaded, myDiv, writer>>

\* The second handler dropping a body it cannot render without a word.
Then2_IgnoresShape(i) ==
    LET json == reqs[i].body
    IN  /\ reqs[i].pc = "then2"
        /\ IF ~json.isArray
              \/ \E k \in DOMAIN json.elems : json.elems[k].entity = <<>>
           THEN /\ reqs' = [reqs EXCEPT ![i].pc = "done", ![i].body = NoBody]
                /\ UNCHANGED <<myDiv, writer>>
           ELSE /\ myDiv' = HtmlRegion(RenderFragments(json))
                /\ writer' = i
                /\ \/ reqs' = [reqs EXCEPT ![i].pc = "done", ![i].body = NoBody,
                                           ![i].math = "returned"]
                   \/ reqs' = [reqs EXCEPT ![i].pc = "catch", ![i].body = NoBody,
                                           ![i].math = "threw",
                                           ![i].error = <<MathError>>]
        /\ UNCHANGED <<location_search, loaded>>

\* The second handler adding its fragments to what the region holds
\* (innerHTML +=) instead of replacing it.
Then2_Appends(i) ==
    LET json == reqs[i].body
    IN  /\ reqs[i].pc = "then2"
        /\ IF ~json.isArray
           THEN /\ reqs' = [reqs EXCEPT ![i].pc = "catch", ![i].body = NoBody,
                                        ![i].error = <<NotArrayError>>]
                /\ UNCHANGED <<myDiv, writer>>
           ELSE IF \E k \in DOMAIN json.elems : json.elems[k].entity = <<>>
           THEN /\ reqs' = [reqs EXCEPT ![i].pc = "catch", ![i].body = NoBody,
                                        ![i].error = <<NoEntityError>>]
                /\ UNCHANGED <<myDiv, writer>>
           ELSE /\ myDiv' = [kind  |-> "html",
                             items |-> myDiv.items \o RenderFragments(json),
                             text  |-> myDiv.text]
                /\ writer' = i
                /\ \/ reqs' = [reqs EXCEPT ![i].pc = "done", ![i].body = NoBody,
                                           ![i].math = "returned"]
                   \/ reqs' = [reqs EXCEPT ![i].pc = "catch", ![i].body = NoBody,
                                           ![i].math = "threw",
                                           ![i].error = <<MathError>>]
        /\ UNCHANGED <<location_search, loaded>>

\* .then((json) => ...): json.map builds every fragment before innerHTML is
\* assigned; then the math pass runs over the region and may throw.  The
\* decoded body is the handler's argument and is gone when it returns.
Then2(i) ==
    LET json == reqs[i].body
    IN  /\ reqs[i].pc = "then2"
        /\ IF ~json.isArray
           THEN /\ reqs' = [reqs EXCEPT ![i].pc = "catch", ![i].body = NoBody,
                                        ![i].error = <<NotArrayError>>]
                /\ UNCHANGED <<myDiv, writer>>
           ELSE IF \E k \in DOMAIN json.elems : json.elems[k].entity = <<>>
           THEN /\ reqs' = [reqs EXCEPT ![i].pc = "catch", ![i].body = NoBody,
                                        ![i].error = <<NoEntityError>>]
                /\ UNCHANGED <<myDiv, writer>>
           ELSE /\ myDiv' = HtmlRegion(RenderFragments(json))
                /\ writer' = i
                /\ \/ reqs' = [reqs EXCEPT ![i].pc = "done", ![i].body = NoBody,
                                           ![i].math = "returned"]
                   \/ reqs' = [reqs EXCEPT ![i].pc = "catch", ![i].body = NoBody,
                                           ![i].math = "threw",
                                           ![i].error = <<MathError>>]
        /\ UNCHANGED <<location_search, loaded>>

\* The catch handler showing a fixed message, the error dropped.
Catch_FixedMessage(i) ==
    /\ reqs[i].pc = "catch"
    /\ myDiv' = TextRegion(<<"Could not fetch verse">>)
    /\ writer' = i
    /\ reqs' = [reqs EXCEPT ![i].pc = "done"]
    /\ UNCHANGED <<location_search, loaded>>

\* The catch handler sending the failed query again after showing the error.
Catch_Retry(i) ==
    /\ reqs[i].pc = "catch"
    /\ myDiv' = TextRegion(<<"Could not fetch verse: ">>
                             \o ErrorString(reqs[i].error[1]))
    /\ writer' = i
    /\ reqs' = IF Len(reqs) < MaxReq
               THEN Append([reqs EXCEPT ![i].pc = "done"],
                           NewRequest(reqs[i].text, reqs[i].filter,
                                      reqs[i].origin))
               ELSE [reqs EXCEPT ![i].pc = "done"]
    /\ UNCHANGED <<location_search, loaded>>

\* .catch((error) => ...)
Catch(i) ==
    /\ reqs[i].pc = "catch"
    /\ myDiv' = TextRegion(<<"Could not fetch verse: ">>
                             \o ErrorString(reqs[i].error[1]))
    /\ writer' = i
    /\ reqs' = [reqs EXCEPT ![i].pc = "done"]
    /\ UNCHANGED <<location_search, loaded>>

(***************************************************************************)
(* The user follows the "Search Similar" link of the k-th fragment on      *)
(* display: the browser leaves the page for the address the href names,    *)
(* and the script starts afresh there.  The fetches of the page left       *)
(* behind are gone with it.                                                *)
(***************************************************************************)
SearchSimilar(k) ==
    /\ loaded
    /\ NoMicrotask
    /\ myDiv.kind = "html"
    /\ k \in DOMAIN myDiv.items
    /\ myDiv.items[k].similar # <<>>
    /\ location_search' = myDiv.items[k].similar
    /\ loaded' = FALSE
    /\ myDiv' = InitialRegion
    /\ reqs' = <<>>
    /\ writer' = 0

Keys == {"Enter", "a"}

Next ==
    \/ PageLoad
    \/ \E value \in TextInputs, sel \in DOMAIN yearDropdown : Click(value, sel)
    \/ \E key \in Keys, shiftKey \in BOOLEAN : Keydown(key, shiftKey)
    \/ \E i \in DOMAIN reqs : FetchSettle(i)
    \/ \E i \in DOMAIN reqs : Then1(i)
    \/ \E i \in DOMAIN reqs : JsonSettle(i)
    \/ \E i \in DOMAIN reqs : Then2(i)
    \/ \E i \in DOMAIN reqs : Catch(i)
    \/ \E k \in 1..MaxRecords : SearchSimilar(k)

Spec == Init /\ [][Next]_vars

(***************************************************************************)
(* The by-id variant of the script (the second script in script.js): the   *)
(* click listener is search_by_id itself, which GETs myURL + arxiv_id.     *)
(* It has no dropdown and runs nothing at load.                            *)
(***************************************************************************)
myURL == <<"http://0.0.0.0:8000/search_by_id/">>

LegacyRequest(arxiv_id) ==
    [method |-> "GET",
     url    |-> myURL \o arxiv_id,
     text   |-> <<>>,
     filter |-> <<>>,
     origin |-> "click",
     pc     |-> "fetch",
     status |-> 0,
     body   |-> NoBody,
     math   |-> "none",
     error  |-> <<>>]

legacy_search_by_id(value) ==
    LET arxiv_id == Trim(value)
    IN  /\ Len(reqs) < MaxReq
        /\ myDiv' = Loader
        /\ reqs' = Append(reqs, LegacyRequest(arxiv_id))
        /\ writer' = Len(reqs) + 1

LegacyClick(value) ==
    /\ NoMicrotask
    /\ legacy_search_by_id(value)
    /\ UNCHANGED <<location_search, loaded>>

LegacyKeydown(key, shiftKey) ==
    /\ NoMicrotask
    /\ IF key = "Enter" /\ ~shiftKey
       THEN \E value \in TextInputs : legacy_search_by_id(value)
       ELSE UNCHANGED <<myDiv, reqs, writer>>
    /\ UNCHANGED <<location_search, loaded>>

\* The by-id template: no "Search Similar" link.
LegacyFragment(result) ==
    LET e == result.entity[1]
    IN  [href       |-> e.url,
         title      |-> e.title,
         authors    |-> e.authors,
         date       |-> <<e.month, " ", e.year>>,
         abstract   |-> <<e.abstract, "...">>,
         categories |-> e.categories,
         similar    |-> <<>>]

LegacyThen2(i) ==
    LET json == reqs[i].body
    IN  /\ reqs[i].pc = "then2"
        /\ IF ~json.isArray
           THEN /\ reqs' = [reqs EXCEPT ![i].pc = "catch", ![i].body = NoBody,
                                        ![i].error = <<NotArrayError>>]
                /\ UNCHANGED <<myDiv, writer>>
           ELSE IF \E k \in DOMAIN json.elems : json.elems[k].entity = <<>>
           THEN /\ reqs' = [reqs EXCEPT ![i].pc = "catch", ![i].body = NoBody,
                                        ![i].error = <<NoEntityError>>]
                /\ UNCHANGED <<myDiv, writer>>
           ELSE /\ myDiv' = HtmlRegion([k \in DOMAIN json.elems |->
                                           LegacyFragment(json.elems[k])])
                /\ writer' = i
                /\ \/ reqs' = [reqs EXCEPT ![i].pc = "done", ![i].body = NoBody,
                                           ![i].math = "returned"]
                   \/ reqs' = [reqs EXCEPT ![i].pc = "catch", ![i].body = NoBody,
                                           ![i].math = "threw",
                                           ![i].error = <<MathError>>]
        /\ UNCHANGED <<location_search, loaded>>

InitLegacy ==
    /\ location_search = <<>>
    /\ loaded = TRUE
    /\ myDiv = InitialRegion
    /\ reqs = <<>>
    /\ writer = 0

NextLegacy ==
    \/ \E value \in TextInputs : LegacyClick(value)
    \/ \E key \in Keys, shiftKey \in BOOLEAN : LegacyKeydown(key, shiftKey)
    \/ \E i \in DOMAIN reqs : FetchSettle(i)
    \/ \E i \in DOMAIN reqs : Then1(i)
    \/ \E i \in DOMAIN reqs : JsonSettle(i)
    \/ \E i \in DOMAIN reqs : LegacyThen2(i)
    \/ \E i \in DOMAIN reqs : Catch(i)

SpecLegacy == InitLegacy /\ [][NextLegacy]_vars

(***************************************************************************)
(* The script's own steps: promise reactions the browser runs without any  *)
(* further input from the user or the network.                             *)
(***************************************************************************)
ScriptStep == \E i \in DOMAIN reqs : Then1(i) \/ Then2(i) \/ Catch(i)

(***************************************************************************)
(* Properties.                                                             *)
(***************************************************************************)
Resolved(i) == reqs[i].pc = "done"

AllResolved == \A i \in DOMAIN reqs : Resolved(i)

ErrorText(e) == <<"Could not fetch verse: ">> \o ErrorString(e)

Contains(s, c) == \E k \in DOMAIN s : s[k] = c

\* C1: once two submits have both resolved, whatever the order of their
\* responses, the results region shows the outcome of the later submit: its
\* error text if it failed, and a result list written by it if it succeeded.
C1_LaterSubmitWins ==
    (Len(reqs) >= 2 /\ AllResolved) =>
        LET r == reqs[Len(reqs)]
        IN  IF r.error # <<>>
            THEN myDiv = TextRegion(ErrorText(r.error[1]))
            ELSE myDiv.kind = "html" /\ writer = Len(reqs)

\* C2: while the latest request has not yet produced its outcome, the region
\* stays on the loading indicator: no earlier request's resolution shows.
C2_StaleResponseDiscarded ==
    (reqs # <<>> /\ reqs[Len(reqs)].pc \in {"fetch", "then1", "json", "then2"})
        => myDiv = Loader

\* A submit from the page (click, or Enter which clicks) with this value.
InteractiveSubmit(value) ==
    \/ \E sel \in DOMAIN yearDropdown : Click(value, sel)
    \/ LegacyClick(value)

\* C3: an interactive submit whose text is empty after trimming dispatches
\* no request and leaves the results region as it was.
C3_EmptyInputNoOp ==
    [][\A value \in TextInputs :
          (Trim(value) = <<>> /\ InteractiveSubmit(value))
              => UNCHANGED <<myDiv, reqs>>]_vars

\* C4: every dispatched search request carries a trimmed, non-empty value.
C4_ValueTrimmedNonEmpty ==
    \A i \in DOMAIN reqs :
        reqs[i].method = "POST" =>
            /\ reqs[i].text # <<>>
            /\ reqs[i].text[1] \notin Whitespace
            /\ reqs[i].text[Len(reqs[i].text)] \notin Whitespace

BadStatus(r) == r.status # 0 /\ r.status \notin 200..299

\* C5: a response with a non-2xx status is never decoded, and the step that
\* ends its request leaves the region holding only an error text that
\* contains the status code: no loader, no result list.
C5_BadStatusIsFailure ==
    [][\A i \in DOMAIN reqs :
          /\ (BadStatus(reqs[i]) /\ reqs[i].pc = "then1")
                => reqs'[i].pc = "catch"
          /\ (BadStatus(reqs[i]) /\ ~Resolved(i) /\ reqs'[i].pc = "done")
                => /\ myDiv'.kind = "text"
                   /\ myDiv'.items = <<>>
                   /\ Contains(myDiv'.text, NumStr(reqs[i].status))]_vars

C5_Witness ==
    /\ Len(reqs) = 2
    /\ AllResolved
    /\ reqs[1].math = "returned"
    /\ reqs[2].status = 500
    /\ writer = 2
    /\ myDiv.kind = "text"

\* C6: a rejected fetch and an undecodable body end the request as a bad
\* status does: the region holds only an error text, which includes the
\* name and the message of the underlying failure.
C6_TransportFailureIsFailure ==
    [][\A i \in DOMAIN reqs \cap DOMAIN reqs' :
          /\ (reqs[i].pc = "fetch" /\ reqs'[i].pc \notin {"fetch", "then1"})
                => reqs'[i].pc = "catch" /\ reqs'[i].error = <<NetworkError>>
          /\ (reqs[i].pc = "json" /\ reqs'[i].pc \notin {"json", "then2"})
                => reqs'[i].pc = "catch" /\ reqs'[i].error = <<JsonError>>
          /\ (reqs[i].pc = "catch" /\ reqs'[i].pc = "done"
                /\ reqs[i].error[1] \in {NetworkError, JsonError})
                => /\ myDiv'.kind = "text"
                   /\ myDiv'.items = <<>>
                   /\ Contains(myDiv'.text, reqs[i].error[1].name)
                   /\ \A k \in DOMAIN reqs[i].error[1].message :
                         Contains(myDiv'.text, reqs[i].error[1].message[k])
                   /\ Head(myDiv'.text) = Head(ErrorText(HttpError(500)))]_vars

C6_Witness ==
    /\ Len(reqs) = 2
    /\ AllResolved
    /\ reqs[1].error = <<NetworkError>>
    /\ reqs[2].error = <<JsonError>>
    /\ writer = 2
    /\ myDiv = TextRegion(<<"Could not fetch verse: ", "SyntaxError", ": ",
                            "Unexpected token">>)

\* A decoded body of the expected shape: an array whose elements all have
\* an entity.
WellFormed(json) ==
    /\ json.kind = "json"
    /\ json.isArray
    /\ \A k \in DOMAIN json.elems : json.elems[k].entity # <<>>

\* C7: the handler of a well-formed array of n records leaves the region
\* holding exactly n fragments, the k-th built from the k-th record.
C7_OneFragmentPerRecord ==
    [][\A i \in DOMAIN reqs :
          (reqs[i].pc = "then2" /\ WellFormed(reqs[i].body)
                /\ reqs'[i].pc # "then2")
            => /\ myDiv'.kind = "html"
               /\ Len(myDiv'.items) = Len(reqs[i].body.elems)
               /\ \A k \in DOMAIN reqs[i].body.elems :
                     LET e == reqs[i].body.elems[k].entity[1]
                         f == myDiv'.items[k]
                     IN  /\ f.title = e.title
                         /\ f.href = e.url
                         /\ f.authors = e.authors
                         /\ f.categories = e.categories
                         /\ f.date = <<e.month, " ", e.year>>
                         /\ Head(f.abstract) = e.abstract
                         /\ SubSeq(f.similar, Len(f.similar) - Len(e.id) + 1,
                                   Len(f.similar)) = e.id]_vars

C7_Witness ==
    \E i \in DOMAIN reqs :
        /\ Resolved(i)
        /\ reqs[i].math = "returned"
        /\ writer = i
        /\ myDiv.kind = "html"
        /\ Len(myDiv.items) = 2
        /\ myDiv.items[1].title = "S"
        /\ myDiv.items[2].title = "T"

LoadRequests == {i \in DOMAIN reqs : reqs[i].origin = "load"}

\* C8: nothing is dispatched before the script has run; after it has, an
\* address with an arxiv_id has caused exactly one request, the first, sent
\* the way interactive searches are, with that identifier as its value and
\* filter "" when the address has no filter; an address without arxiv_id has
\* caused none, and the region is untouched until the user submits.
C8_DeepLinkOnce ==
    \A d \in DeepLinks :
        location_search = d.search =>
            /\ ~loaded => reqs = <<>>
            /\ (loaded /\ d.arxiv_id # <<>>) =>
                  /\ LoadRequests = {1}
                  /\ reqs[1].method = "POST"
                  /\ reqs[1].url = search_url
                  /\ reqs[1].text = d.arxiv_id[1]
                  /\ d.filter = <<>> => reqs[1].filter = <<>>
            /\ (loaded /\ d.arxiv_id = <<>>) =>
                  /\ LoadRequests = {}
                  /\ reqs = <<>> => myDiv = InitialRegion

C8_Witness ==
    /\ loaded
    /\ location_search = <<"?", "arxiv_id", "=", "2401.07215">>
    /\ Len(reqs) = 2
    /\ reqs[1].origin = "load"
    /\ reqs[1].text = <<"2401.07215">>
    /\ reqs[1].filter = <<>>
    /\ reqs[2].origin = "click"

\* C9: when the address carries both parameters, the request sent at load
\* has the decoded filter as its filter and the decoded arxiv_id as its text.
C9_DeepLinkFilterVerbatim ==
    \A d \in DeepLinks :
        (loaded /\ location_search = d.search
            /\ d.arxiv_id # <<>> /\ d.filter # <<>>)
          => /\ reqs # <<>>
             /\ reqs[1].origin = "load"
             /\ reqs[1].filter = d.filter[1]
             /\ reqs[1].text = d.arxiv_id[1]

C9_Witness ==
    /\ loaded
    /\ Contains(location_search, "%3D")
    /\ reqs # <<>>
    /\ reqs[1].origin = "load"
    /\ reqs[1].filter = <<"year", "=", "=", "2025">>
    /\ reqs[1].text = <<"2401.07215">>

\* The n-th request is the latest and its response has not arrived.
AwaitingResponse(n) ==
    IF n \in DOMAIN reqs THEN Len(reqs) = n /\ reqs[n].pc = "fetch" ELSE FALSE

\* C10: loading always ends.  Whenever the latest request is still awaiting
\* its response, the script has a step of its own pending (a request
\* timeout) that ends the wait without any answer from the network.
C10_LoadingEnds ==
    \A n \in 1..MaxReq : AwaitingResponse(n) => ENABLED ScriptStep

\* A click whose submit is accepted: one more request, awaiting its response
\* and carrying the trimmed text, and the region on the loader.
AcceptedSubmit(value, sel) ==
    /\ Click(value, sel)
    /\ Len(reqs') = Len(reqs) + 1
    /\ reqs'[Len(reqs')].pc = "fetch"
    /\ reqs'[Len(reqs')].text = Trim(value)
    /\ SubSeq(reqs', 1, Len(reqs)) = reqs
    /\ myDiv' = Loader

\* C11: no view is absorbing.  In every state in which the page takes events
\* (the script has run, no promise reaction is queued) and fewer than MaxReq
\* requests have been issued, whatever the region shows (initial content,
\* loader, result list, or the error text of any failure), a click with text
\* that is non-empty after trimming dispatches a new request and puts the
\* region on the loader.
C11_SubmitAlwaysAccepted ==
    (loaded /\ NoMicrotask /\ Len(reqs) < MaxReq) =>
        \A value \in TextInputs, sel \in DOMAIN yearDropdown :
            Trim(value) # <<>> => ENABLED AcceptedSubmit(value, sel)

C11_Witness ==
    /\ Len(reqs) = 2
    /\ Resolved(1)
    /\ reqs[1].error = <<HttpError(404)>>
    /\ reqs[2].origin = "click"
    /\ reqs[2].pc = "fetch"
    /\ writer = 2
    /\ myDiv = Loader

\* The step leaves the page for another address.
LeavesPage == loaded /\ ~loaded'

\* The textarea values a submit accepts: non-empty after trimming.
SubmittableInputs == {value \in TextInputs : Trim(value) # <<>>}

\* A step that is an accepted submit: a click (or Enter, which clicks) with
\* text non-empty after trimming, or the script's run at load on an address
\* that carries an arxiv_id.
AcceptedSubmitStep ==
    \/ /\ loaded
       /\ NoMicrotask
       /\ \E value \in SubmittableInputs, sel \in DOMAIN yearDropdown :
             Click(value, sel)
    \/ /\ ~loaded
       /\ ParamsGet(URLSearchParams(location_search), <<"arxiv_id">>) # <<>>
       /\ PageLoad

\* C12: no automatic retry.  Every accepted submit dispatches exactly one
\* request, and no other step dispatches any: the requests already issued
\* stay in place, and a step of a promise chain, a failing one included,
\* leaves the number of requests as it was.  (A page left through a link
\* takes its requests with it; the new page starts with none.)
C12_NoAutomaticRetry ==
    [][/\ AcceptedSubmitStep => Len(reqs') = Len(reqs) + 1
       /\ ~AcceptedSubmitStep =>
             \/ Len(reqs') = Len(reqs)
             \/ LeavesPage /\ reqs' = <<>>
       /\ \A i \in DOMAIN reqs :
             (i \in DOMAIN reqs' /\ reqs'[i].pc # reqs[i].pc)
                 => Len(reqs') = Len(reqs)]_vars

C12_Witness ==
    /\ loaded
    /\ Len(reqs) = 1
    /\ Resolved(1)
    /\ reqs[1].error = <<NetworkError>>
    /\ myDiv.kind = "text"

\* A click on the search button, whatever the textarea and dropdown hold.
AnyClick == \E value \in TextInputs, sel \in DOMAIN yearDropdown : Click(value, sel)

\* C13: in every state in which the page takes events, Enter without shift
\* has exactly the effects a click on the button has: every outcome of the
\* click (the new request and the loader, or the no-op on blank text) is an
\* outcome of Enter, and Enter has no other outcome.  Enter with shift can
\* happen and changes nothing: no request is dispatched and the region stays
\* as it was.
C13_EnterIsClick ==
    (loaded /\ NoMicrotask) =>
        /\ ~ENABLED (AnyClick /\ ~Keydown("Enter", FALSE))
        /\ ~ENABLED (Keydown("Enter", FALSE) /\ ~AnyClick)
        /\ ENABLED Keydown("Enter", FALSE)
        /\ ENABLED Keydown("Enter", TRUE)
        /\ ~ENABLED (Keydown("Enter", TRUE) /\ vars' # vars)

C13_Witness ==
    /\ loaded
    /\ NoMicrotask
    /\ Len(reqs) = 1
    /\ reqs[1].origin = "click"
    /\ reqs[1].pc = "fetch"
    /\ reqs[1].text = <<"graph", "/", "?", "#", "&", "\"", " ", "neural">>
    /\ reqs[1].filter = yearDropdown[3]
    /\ myDiv = Loader

\* What a reader of a JSON body takes a string literal starting at the
\* quote at position k to be: the characters up to the next quote, escapes
\* undone; and where the literal ends.
JsonUnescape(c) ==
    CASE c = "\\\"" -> "\""
      [] c = "\\\\" -> "\\"
      [] c = "\\n"  -> "\n"
      [] c = "\\t"  -> "\t"
      [] OTHER      -> c

ReadJsonString(b, k) ==
    LET e == IndexFrom(b, "\"", k + 1)
    IN  [value |-> [i \in 1..(e - k - 1) |-> JsonUnescape(b[k + i])],
         next  |-> e + 1]

\* JSON.parse of a body {"text":...,"filter":...}
JSONParse(b) ==
    LET t == ReadJsonString(b, 4)
        f == ReadJsonString(b, t.next + 3)
    IN  [text |-> t.value, filter |-> f.value]

\* The identifier a GET /search_by_id/{id} carries: the URL as fetch parses
\* it loses its fragment (from the first "#"), then its query (from the
\* first "?"); what is left after the endpoint is the identifier.
UrlPath(url) ==
    LET h        == IndexOf(url, "#")
        noFrag   == IF h = 0 THEN url ELSE SubSeq(url, 1, h - 1)
        q        == IndexOf(noFrag, "?")
    IN  IF q = 0 THEN noFrag ELSE SubSeq(noFrag, 1, q - 1)

PathIdentifier(url) == Tail(UrlPath(url))

\* C14: the request built for a query decodes to that query.  The body of
\* the POST a click dispatches parses back to the trimmed text and the
\* selected filter, and the URL of the GET the by-id variant dispatches
\* carries the trimmed identifier as its path, whatever characters the
\* text holds ("/", "?", "#", "&", a double quote, spaces).
C14_RequestRoundTrip ==
    [][/\ \A value \in TextInputs, sel \in DOMAIN yearDropdown :
             (Trim(value) # <<>> /\ Click(value, sel)) =>
                 JSONParse(RequestBody(reqs'[Len(reqs')]))
                     = [text |-> Trim(value), filter |-> yearDropdown[sel]]
       /\ \A value \in TextInputs :
             LegacyClick(value) =>
                 PathIdentifier(reqs'[Len(reqs')].url) = Trim(value)]_vars

\* The region holds one thing: the page's own markup, the loader, a text and
\* nothing else, or a list of fragments and nothing else.
OneContent(region) ==
    \/ region = InitialRegion
    \/ region = Loader
    \/ region.kind = "text" /\ region.items = <<>> /\ region.text # <<>>
    \/ region.kind = "html" /\ region.text = <<>>

\* C15: the region always holds exactly one of its initial content, the
\* loader, an error text, or the fragment list of one response.  Every write
\* replaces the whole region by a value that depends on the outcome shown
\* alone, never on what the region held: the loader of a new request, the
\* error text of one request's failure, or all the fragments of one
\* request's decoded body, so that showing the same outcome again gives the
\* same region.  (A page reached through a link starts with its initial
\* content.)
C15_WholeRegionReplaced ==
    [][/\ OneContent(myDiv)
       /\ OneContent(myDiv')
       /\ myDiv' # myDiv =>
             \/ LeavesPage /\ myDiv' = InitialRegion
             \/ myDiv' = Loader /\ Len(reqs') = Len(reqs) + 1
             \/ \E i \in DOMAIN reqs :
                   /\ reqs[i].pc = "catch"
                   /\ myDiv' = TextRegion(ErrorText(reqs[i].error[1]))
             \/ \E i \in DOMAIN reqs :
                   /\ reqs[i].pc = "then2"
                   /\ WellFormed(reqs[i].body)
                   /\ myDiv' = HtmlRegion(RenderFragments(reqs[i].body))]_vars

C15_Witness ==
    /\ Len(reqs) = 2
    /\ AllResolved
    /\ reqs[1].math = "returned"
    /\ reqs[2].math = "returned"
    /\ writer = 1
    /\ myDiv.kind = "html"
    /\ Len(myDiv.items) = 1
    /\ myDiv.items[1].title = "S"

\* C16: the step of an accepted submit, whatever the region showed before
\* (initial content, a result list, an error text, the loader of a request
\* still in flight), is the step that dispatches the request, and it leaves
\* the region on the loader with the new request awaiting its response.
\* From then on the loader gives way only to a handler that processes a
\* response: until one runs, no earlier result or error is on display.
C16_SubmitShowsLoader ==
    [][/\ AcceptedSubmitStep =>
             /\ myDiv' = Loader
             /\ Len(reqs') = Len(reqs) + 1
             /\ reqs'[Len(reqs')].pc = "fetch"
             /\ reqs'[Len(reqs')].status = 0
             /\ writer' = Len(reqs')
       /\ Len(reqs') > Len(reqs) => myDiv' = Loader
       /\ (myDiv = Loader /\ myDiv' # Loader) =>
             \E i \in DOMAIN reqs :
                 /\ reqs[i].pc \in {"then2", "catch"}
                 /\ reqs'[i].pc # reqs[i].pc]_vars

C16_Witness ==
    /\ Len(reqs) = 2
    /\ reqs[1].pc = "fetch"
    /\ reqs[2].pc = "fetch"
    /\ reqs[2].origin = "click"
    /\ writer = 2
    /\ myDiv = Loader

\* t is value without its leading and trailing whitespace.
IsTrimOf(t, value) ==
    /\ \E a, b \in 0..Len(value) :
          /\ a + b <= Len(value)
          /\ t = SubSeq(value, a + 1, Len(value) - b)
          /\ \A k \in 1..a : value[k] \in Whitespace
          /\ \A k \in (Len(value) - b + 1)..Len(value) : value[k] \in Whitespace
    /\ t # <<>> => t[1] \notin Whitespace /\ t[Len(t)] \notin Whitespace

\* The option values of the year dropdown, "All years" first.
OptionValues ==
    << <<>>,
       <<"year", " ", "=", "=", " ", "2026">>,
       <<"year", " ", ">", "=", " ", "2021">>,
       <<"year", " ", ">", "=", " ", "2016">> >>

\* C17: a click with text that is non-empty after trimming dispatches a
\* request whose text is the textarea's value without its leading and
\* trailing whitespace, inner characters untouched, and whose filter is the
\* value of the option selected, as written into the dropdown; with the
\* first option, "All years", the filter is the empty string.
C17_TextAndFilterPassedThrough ==
    [][\A value \in SubmittableInputs, sel \in DOMAIN yearDropdown :
          Click(value, sel) =>
              LET r == reqs'[Len(reqs')]
              IN  /\ Len(reqs') = Len(reqs) + 1
                  /\ r.origin = "click"
                  /\ IsTrimOf(r.text, value)
                  /\ r.filter = OptionValues[sel]
                  /\ sel = 1 => r.filter = <<>>]_vars

C17_Witness ==
    /\ Len(reqs) = 2
    /\ reqs[1].origin = "click"
    /\ reqs[1].text = <<"2401.07215">>
    /\ reqs[1].filter = <<"year", " ", ">", "=", " ", "2021">>
    /\ reqs[2].origin = "click"
    /\ reqs[2].text = <<"graph", "/", "?", "#", "&", "\"", " ", "neural">>
    /\ reqs[2].filter = <<>>

\* The record a fragment on display was rendered from.
RecordOf(item) == CHOOSE p \in Papers : p.title = item.title /\ p.url = item.href

\* What a reader of the address takes it to carry.
AddressId(query) == ParamsGet(URLSearchParams(query), <<"arxiv_id">>)
AddressFilter(query) == ParamsGet(URLSearchParams(query), <<"filter">>)

\* C18: following the "Search Similar" link of a record with identifier X
\* starts a new page, nothing dispatched yet, whose address carries X as its
\* arxiv_id and no filter; the script's run on such an address dispatches
\* one request, the page's first, with text X and filter ""; and nothing
\* after the load dispatches another on the address's behalf.  This holds
\* for each identifier a record carries, new style (2401.07215) and old
\* style with its "/" (hep-th/9901001).
C18_SearchSimilarReentersDeepLink ==
    [][/\ \A k \in 1..MaxRecords :
             SearchSimilar(k) =>
                 /\ ~loaded'
                 /\ reqs' = <<>>
                 /\ AddressId(location_search') = <<RecordOf(myDiv.items[k]).id>>
                 /\ AddressFilter(location_search') = <<>>
       /\ \A p \in Papers :
             (PageLoad /\ AddressId(location_search) = <<p.id>>
                       /\ AddressFilter(location_search) = <<>>) =>
                 /\ Len(reqs') = 1
                 /\ reqs'[1].origin = "load"
                 /\ reqs'[1].text = p.id
                 /\ reqs'[1].filter = <<>>
                 /\ reqs'[1].pc = "fetch"
       /\ (loaded /\ loaded') =>
             \A i \in DOMAIN reqs' : reqs'[i].origin = "load" => i \in DOMAIN reqs
      ]_vars

C18_Witness ==
    /\ loaded
    /\ location_search = <<"?", "arxiv_id", "=", "hep-th", "/", "9901001">>
    /\ Len(reqs) = 1
    /\ reqs[1].origin = "load"
    /\ reqs[1].text = <<"hep-th", "/", "9901001">>
    /\ reqs[1].filter = <<>>
    /\ Resolved(1)

\* C19: the math pass runs once for each render of a result list and for
\* nothing else.  The step in which a request's pass runs is the step of its
\* second handler on a well-formed body, the pass has not run for it before,
\* and the region is left holding that body's fragments whether the pass
\* returned or threw: the region was replaced before the pass began.  Every
\* such handler run triggers the pass.  A request starts with no pass run
\* (its loader is not typeset), and the catch handler, which renders the
\* failure, runs none.
C19_MathPassOncePerSuccess ==
    [][/\ \A i \in DOMAIN reqs \cap DOMAIN reqs' :
             /\ reqs'[i].math # reqs[i].math =>
                   /\ reqs[i].math = "none"
                   /\ reqs'[i].math \in {"returned", "threw"}
                   /\ reqs[i].pc = "then2"
                   /\ WellFormed(reqs[i].body)
                   /\ myDiv' = HtmlRegion(RenderFragments(reqs[i].body))
                   /\ writer' = i
             /\ (reqs[i].pc = "then2" /\ reqs'[i].pc # "then2"
                    /\ myDiv' # myDiv) => reqs'[i].math # reqs[i].math
             /\ (reqs[i].pc = "then2" /\ WellFormed(reqs[i].body)
                    /\ reqs'[i].pc # "then2") => reqs'[i].math # "none"
             /\ reqs[i].pc = "catch" => reqs'[i].math = reqs[i].math
       /\ \A i \in DOMAIN reqs' \ DOMAIN reqs : reqs'[i].math = "none"]_vars

C19_Witness ==
    /\ location_search = <<>>
    /\ Len(reqs) = 1
    /\ Resolved(1)
    /\ reqs[1].math = "returned"
    /\ reqs[1].error = <<>>
    /\ writer = 1
    /\ myDiv.kind = "html"
    /\ Len(myDiv.items) = 2
    /\ myDiv.items[1].title = "T"

\* A decoded body the template cannot render: not an array, or an array
\* with an element that has no entity.
Misshapen(json) == json.kind = "json" /\ ~WellFormed(json)

ShapeErrors == {NotArrayError, NoEntityError}

\* C20: a 2xx response whose decoded body is not an array, or has an element
\* without an entity, ends as a failure.  Its second handler writes nothing
\* to the region (no fragment of the body is shown) and throws to the catch
\* handler; the catch handler is then due to run without waiting for any
\* event, and its run ends the request with the region holding only the
\* error text, which names the TypeError.
C20_MisshapenBodyIsFailure ==
    [][\A i \in DOMAIN reqs \cap DOMAIN reqs' :
          /\ (reqs[i].pc = "then2" /\ Misshapen(reqs[i].body)) =>
                /\ Ok(reqs[i].status)
                /\ reqs'[i].pc # "then2" =>
                      /\ reqs'[i].pc = "catch"
                      /\ reqs'[i].error # <<>>
                      /\ reqs'[i].error[1] \in ShapeErrors
                      /\ reqs'[i].math = "none"
                      /\ myDiv' = myDiv
          /\ (reqs[i].pc = "catch" /\ reqs[i].error[1] \in ShapeErrors) =>
                /\ ENABLED Catch(i)
                /\ ScriptStep
                /\ reqs'[i].pc # "catch" =>
                      /\ Resolved(i)'
                      /\ myDiv'.kind = "text"
                      /\ myDiv'.items = <<>>
                      /\ Head(myDiv'.text) = "Could not fetch verse: "
                      /\ Contains(myDiv'.text, "TypeError")
                      /\ writer' = i]_vars

C20_Witness ==
    /\ Len(reqs) = 1
    /\ Resolved(1)
    /\ reqs[1].status = 200
    /\ reqs[1].error = <<NoEntityError>>
    /\ writer = 1
    /\ myDiv = TextRegion(ErrorText(NoEntityError))

\* C21: a request renders at most one outcome.  Once its result list has
\* been written to the region (its math pass has been started), no later
\* step of the same request writes the region again: in particular a math
\* pass that fails does not put an error text in place of the results.
C21_OneOutcomeRenderPerRequest ==
    [][\A i \in DOMAIN reqs \cap DOMAIN reqs' :
          (reqs[i].math # "none" /\ reqs'[i].pc # reqs[i].pc) =>
              /\ myDiv' = myDiv
              /\ writer' = writer]_vars
=============================================================================
